---------------------------- MODULE Spec2Model ----------------------------
(***************************************************************************)
(* Model of src/mcp/examples/mcp_client.py: the MCPClient protocol client  *)
(* (one subprocess round trip per request), its intent methods, the        *)
(* interactive command loop and the one-shot routing of main().            *)
(*                                                                         *)
(* Strings that the code splits on spaces (interactive lines, version and  *)
(* description strings) are sequences of space-separated tokens: the       *)
(* string "create a b" is <<"create", "a", "b">>, the empty string is      *)
(* <<"">>, and a leading, trailing or doubled space shows as an empty      *)
(* token.  Subprocess output is a body with an optional trailing newline.  *)
(* JSON values are tagged records; Python's None is the JSON null.         *)
(***************************************************************************)
EXTENDS Integers, Sequences, FiniteSets, TLC

(***************************************************************************)
(* Bounds of the model.                                                    *)
(***************************************************************************)
\* Number of prompts an interactive session is followed for.
MaxPrompts == 2
\* Longest argument list (one-shot) / number of tokens after the command
\* word (interactive line).
MaxArgs == 3
\* Number of calls one client instance is followed for (ClientSpec).
MaxCalls == 3

(***************************************************************************)
(* JSON values as json.loads builds them.                                  *)
(***************************************************************************)
None == [t |-> "null"]
JBool(b) == [t |-> "bool", b |-> b]
JNum(n) == [t |-> "num", n |-> n]
JStr(s) == [t |-> "str", s |-> s]
JList(l) == [t |-> "list", l |-> l]
JDict(d) == [t |-> "dict", d |-> d]
EmptyDict == JDict(<<>>)

IsDict(v) == v.t = "dict"

\* Python truth value of a JSON value (None, False, 0, "", [] and {} are
\* false).
Truthy(v) ==
    CASE v.t = "null" -> FALSE
      [] v.t = "bool" -> v.b
      [] v.t = "num"  -> v.n # 0
      [] v.t = "str"  -> v.s # ""
      [] v.t = "list" -> v.l # <<>>
      [] v.t = "dict" -> DOMAIN v.d # {}

\* dict.get(key, default) on a dict.
DictGet(v, key, default) ==
    IF key \in DOMAIN v.d THEN v.d[key] ELSE default

(***************************************************************************)
(* Subprocess output.  A text is a body (no surrounding whitespace) and    *)
(* whether a newline follows it; str.strip() keeps the body.               *)
(***************************************************************************)
Text(body, nl) == [body |-> body, nl |-> nl]

Strip(text) == text.body

\* The bodies a subprocess is taken to print on standard output.
ParseTable ==
    [body \in {"null", "5", "true", "{}", "[\"result\"]",
               "{\"error\": {\"code\": -32601}}",
               "{\"result\": null}",
               "{\"result\": {}}",
               "{\"result\": {}, \"error\": null}",
               "{\"result\": {\"serverInfo\": {\"name\": \"m\", \"version\": \"1\"}}}",
               "{\"result\": {\"serverInfo\": null}}",
               "{\"result\": {\"tools\": []}}",
               "{\"result\": {\"tools\": [{\"name\": \"t\", \"description\": \"d\"}]}}",
               "{\"result\": {\"tools\": [{\"name\": \"t\", \"description\": \"d\"}, {\"name\": \"u\"}]}}",
               "{\"result\": {\"tools\": null}}",
               "{\"result\": {\"content\": []}}",
               "{\"result\": {\"content\": null}}",
               "{\"result\": {\"content\": [{\"type\": \"text\", \"text\": \"ok\"}]}}",
               "{\"result\": {\"content\": [{\"type\": \"text\"}]}}",
               "{\"result\": {\"content\": [{\"text\": null}]}}",
               "{\"result\": {\"content\": [\"ok\"]}}",
               "{\"result\": {\"content\": 5}}"} |->
        CASE body = "null" -> None
          [] body = "5" -> JNum(5)
          [] body = "true" -> JBool(TRUE)
          [] body = "{}" -> EmptyDict
          [] body = "[\"result\"]" -> JList(<<JStr("result")>>)
          [] body = "{\"error\": {\"code\": -32601}}" ->
                JDict([error |-> JDict([code |-> JNum(-32601)])])
          [] body = "{\"result\": null}" -> JDict([result |-> None])
          [] body = "{\"result\": {}}" -> JDict([result |-> EmptyDict])
          [] body = "{\"result\": {}, \"error\": null}" ->
                JDict([result |-> EmptyDict, error |-> None])
          [] body = "{\"result\": {\"serverInfo\": {\"name\": \"m\", \"version\": \"1\"}}}" ->
                JDict([result |-> JDict([serverInfo |->
                    JDict([name |-> JStr("m"), version |-> JStr("1")])])])
          [] body = "{\"result\": {\"serverInfo\": null}}" ->
                JDict([result |-> JDict([serverInfo |-> None])])
          [] body = "{\"result\": {\"tools\": []}}" ->
                JDict([result |-> JDict([tools |-> JList(<<>>)])])
          [] body = "{\"result\": {\"tools\": [{\"name\": \"t\", \"description\": \"d\"}]}}" ->
                JDict([result |-> JDict([tools |-> JList(<<
                    JDict([name |-> JStr("t"), description |-> JStr("d")])>>)])])
          [] body = "{\"result\": {\"tools\": [{\"name\": \"t\", \"description\": \"d\"}, {\"name\": \"u\"}]}}" ->
                JDict([result |-> JDict([tools |-> JList(<<
                    JDict([name |-> JStr("t"), description |-> JStr("d")]),
                    JDict([name |-> JStr("u")])>>)])])
          [] body = "{\"result\": {\"tools\": null}}" ->
                JDict([result |-> JDict([tools |-> None])])
          [] body = "{\"result\": {\"content\": []}}" ->
                JDict([result |-> JDict([content |-> JList(<<>>)])])
          [] body = "{\"result\": {\"content\": null}}" ->
                JDict([result |-> JDict([content |-> None])])
          [] body = "{\"result\": {\"content\": [{\"type\": \"text\", \"text\": \"ok\"}]}}" ->
                JDict([result |-> JDict([content |-> JList(<<
                    JDict([type |-> JStr("text"), text |-> JStr("ok")])>>)])])
          [] body = "{\"result\": {\"content\": [{\"type\": \"text\"}]}}" ->
                JDict([result |-> JDict([content |-> JList(<<
                    JDict([type |-> JStr("text")])>>)])])
          [] body = "{\"result\": {\"content\": [{\"text\": null}]}}" ->
                JDict([result |-> JDict([content |-> JList(<<
                    JDict([text |-> None])>>)])])
          [] body = "{\"result\": {\"content\": [\"ok\"]}}" ->
                JDict([result |-> JDict([content |-> JList(<<JStr("ok")>>)])])
          [] body = "{\"result\": {\"content\": 5}}" ->
                JDict([result |-> JDict([content |-> JNum(5)])])]

\* Bodies that are not JSON: json.loads raises JSONDecodeError on them.
NotJson == {"", "Usage: mongo-essential [command]"}

\* json.loads: the parsed value, or a JSONDecodeError.
json_loads(body) ==
    IF body \in DOMAIN ParseTable
    THEN [raised |-> FALSE, value |-> ParseTable[body]]
    ELSE [raised |-> TRUE, value |-> None]

(***************************************************************************)
(* Transport: MCPClient._next_id and MCPClient._run_mcp_request.           *)
(***************************************************************************)
\* What the operating system and the subprocess do for one call: how
\* Popen ends, and the text communicate() collects.
Launches == {"ok", "FileNotFoundError", "OSError"}

Stdouts ==
    {Text(b, TRUE) : b \in DOMAIN ParseTable \cup NotJson}
        \cup {Text("", FALSE), Text("{\"result\": {}}", FALSE)}

NoText == Text("", FALSE)

\* Standard error is empty, or holds a line next to an empty, an
\* unparseable or a well-formed standard output.
Envs ==
    [launch : {"ok"}, stdout : Stdouts, stderr : {NoText}]
      \cup [launch : {"ok"},
            stdout : {NoText, Text("Usage: mongo-essential [command]", TRUE),
                      Text("{\"result\": {\"content\": [{\"type\": \"text\", \"text\": \"ok\"}]}}", TRUE)},
            stderr : {Text("connection refused", TRUE)}]
      \cup [launch : Launches \ {"ok"}, stdout : {NoText}, stderr : {NoText}]

\* Mutant of next_id: the id is returned before it is incremented.
next_id_stale(request_id) == request_id

\* self.request_id += 1; return self.request_id
next_id(request_id) == request_id + 1

\* The request dictionary; params is None for initialize and tools/list
\* and `params or {}` turns it into the empty mapping.
Request(id, method, params) ==
    [jsonrpc |-> "2.0", id |-> id, method |-> method,
     params |-> IF params = None THEN <<>> ELSE params]

\* Mutant of run_mcp_request: the test for an empty standard output is
\* missing, so an empty output goes to json.loads.
run_mcp_request_no_empty_test(env) ==
    IF env.launch = "FileNotFoundError"
    THEN [ret |-> None,
          err |-> <<"MCP binary not found", "Build the binary with: make build">>]
    ELSE IF env.launch # "ok"
    THEN [ret |-> None, err |-> <<"Error running MCP request">>]
    ELSE LET warn == IF Strip(env.stderr) # ""
                     THEN <<"MCP Server Error">> ELSE <<>>
             parsed == json_loads(Strip(env.stdout))
         IN  IF parsed.raised
             THEN [ret |-> None,
                   err |-> warn \o <<"Failed to parse JSON response",
                                     "Raw response">>]
             ELSE [ret |-> parsed.value, err |-> warn]

\* The part of _run_mcp_request after the request is formed: the value
\* returned (None for "no usable response") and the lines printed on
\* standard error.  Every exception of the try block is caught.
run_mcp_request(env) ==
    IF env.launch = "FileNotFoundError"
    THEN [ret |-> None,
          err |-> <<"MCP binary not found", "Build the binary with: make build">>]
    ELSE IF env.launch # "ok"
    THEN [ret |-> None, err |-> <<"Error running MCP request">>]
    ELSE LET warn == IF Strip(env.stderr) # ""
                     THEN <<"MCP Server Error">> ELSE <<>>
             parsed == json_loads(Strip(env.stdout))
         IN  IF Strip(env.stdout) = ""
             THEN [ret |-> None,
                   err |-> warn \o <<"No response from MCP server">>]
             ELSE IF parsed.raised
             THEN [ret |-> None,
                   err |-> warn \o <<"Failed to parse JSON response",
                                     "Raw response">>]
             ELSE [ret |-> parsed.value, err |-> warn]

(***************************************************************************)
(* The intents' handling of a response.  An intent returns "True" or       *)
(* "False", or ends in an exception it does not catch ("raise").           *)
(***************************************************************************)
\* `response and 'result' in response`, then response['result']:
\* "absent" when the test is false, "value" with the entry, or "raise"
\* (TypeError: `in` on a number or boolean, or a string key on a list).
ResultOf(response) ==
    IF ~Truthy(response) THEN [kind |-> "absent", v |-> None]
    ELSE CASE response.t = "dict" ->
                IF "result" \in DOMAIN response.d
                THEN [kind |-> "value", v |-> response.d["result"]]
                ELSE [kind |-> "absent", v |-> None]
           [] response.t = "list" ->
                IF \E i \in DOMAIN response.l : response.l[i] = JStr("result")
                THEN [kind |-> "raise", v |-> None]
                ELSE [kind |-> "absent", v |-> None]
           [] response.t = "str" ->
                \* substring test; every string of the model that holds
                \* "result" is that word, and indexing it by a key raises
                IF response.s = "result"
                THEN [kind |-> "raise", v |-> None]
                ELSE [kind |-> "absent", v |-> None]
           [] OTHER -> [kind |-> "raise", v |-> None]

Returned(ret, out) == [ret |-> ret, out |-> out]

\* MCPClient.initialize; t is what its Transport call returned and printed.
initialize(t) ==
    LET r == ResultOf(t.ret)
        start == <<"Initializing MCP server...">> \o t.err
    IN  IF r.kind = "raise" THEN Returned("raise", start)
        ELSE IF r.kind = "absent"
        THEN Returned("False", start \o <<"Failed to initialize MCP server">>)
        ELSE IF ~IsDict(r.v) THEN Returned("raise", start)
        ELSE IF ~IsDict(DictGet(r.v, "serverInfo", EmptyDict))
        THEN Returned("raise", start)
        ELSE Returned("True", start \o <<"Connected">>)

\* len(x) is defined on strings, lists and dicts.
HasLen(v) == v.t \in {"str", "list", "dict"}

\* The elements a for loop draws from a value that has a length; only
\* lists occur as `tools` in the model's responses besides None.
Elements(v) == IF v.t = "list" THEN v.l ELSE <<>>

\* The loop of list_tools over the tools left: the lines printed, and
\* whether tool['name'] or tool['description'] raised.
RECURSIVE ToolsLoop(_)
ToolsLoop(tools) ==
    IF tools = <<>> THEN [raised |-> FALSE, out |-> <<>>]
    ELSE LET tool == Head(tools)
         IN  IF ~IsDict(tool) \/ "name" \notin DOMAIN tool.d
             THEN [raised |-> TRUE, out |-> <<>>]
             ELSE IF "description" \notin DOMAIN tool.d
             THEN [raised |-> TRUE, out |-> <<"tool name">>]
             ELSE LET rest == ToolsLoop(Tail(tools))
                  IN  [raised |-> rest.raised,
                       out |-> <<"tool name", "tool description">> \o rest.out]

\* MCPClient.list_tools; t is what its Transport call returned and printed.
list_tools(t) ==
    LET r == ResultOf(t.ret)
        start == <<"Listing available tools...">> \o t.err
    IN  IF r.kind = "raise" THEN Returned("raise", start)
        ELSE IF r.kind = "absent"
        THEN Returned("False", start \o <<"Failed to list tools">>)
        ELSE IF ~IsDict(r.v) THEN Returned("raise", start)
        ELSE LET tools == DictGet(r.v, "tools", JList(<<>>))
             IN  IF ~HasLen(tools) THEN Returned("raise", start)
                 ELSE LET loop == ToolsLoop(Elements(tools))
                          shown == start \o <<"Available Tools">> \o loop.out
                      IN  IF loop.raised THEN Returned("raise", shown)
                          ELSE Returned("True", shown)

\* Mutant of ContentIntent: a first block without text is reported as
\* failure instead of being shown as the default string.
ContentIntent_text_required(t, start, default, failure) ==
    LET r == ResultOf(t.ret)
        begun == <<start>> \o t.err
        failed == Returned("False", begun \o <<failure>>)
        raised == Returned("raise", begun)
    IN  IF r.kind = "raise" THEN raised
        ELSE IF r.kind = "absent" THEN failed
        ELSE IF ~IsDict(r.v) THEN raised
        ELSE LET content == DictGet(r.v, "content", JList(<<>>))
             IN  IF ~Truthy(content) THEN failed
                 ELSE IF ~HasLen(content) THEN raised
                 ELSE IF content.t # "list" THEN raised
                 ELSE IF ~IsDict(content.l[1]) THEN raised
                 ELSE IF "text" \notin DOMAIN content.l[1].d THEN failed
                 ELSE LET text == content.l[1].d["text"]
                      IN  IF text.t # "str" THEN raised
                          ELSE Returned("True", begun \o <<text.s>>)

\* The pattern shared by migration_status, migration_up, migration_down,
\* create_migration and list_migrations around the Transport call:
\*   if response and 'result' in response:
\*       content = response['result'].get('content', [])
\*       if content and len(content) > 0:
\*           print("\n" + content[0].get('text', default)); return True
\*   print(failure); return False
ContentIntent(t, start, default, failure) ==
    LET r == ResultOf(t.ret)
        begun == <<start>> \o t.err
        failed == Returned("False", begun \o <<failure>>)
        raised == Returned("raise", begun)
    IN  IF r.kind = "raise" THEN raised
        ELSE IF r.kind = "absent" THEN failed
        ELSE IF ~IsDict(r.v) THEN raised
        ELSE LET content == DictGet(r.v, "content", JList(<<>>))
             IN  IF ~Truthy(content) THEN failed
                 ELSE IF ~HasLen(content) THEN raised
                 ELSE IF content.t # "list" THEN raised
                 ELSE IF ~IsDict(content.l[1]) THEN raised
                 ELSE LET text == DictGet(content.l[1], "text", JStr(default))
                      IN  IF text.t # "str" THEN raised
                          ELSE Returned("True", begun \o <<text.s>>)

migration_status(t) ==
    ContentIntent(t, "Getting migration status...",
                  "No status available", "Failed to get migration status")

migration_up(t) ==
    ContentIntent(t, "Running migrations...",
                  "Migration completed", "Failed to run migrations")

migration_down(t) ==
    ContentIntent(t, "Rolling back migrations...",
                  "Migration rolled back", "Failed to roll back migrations")

create_migration(t) ==
    ContentIntent(t, "Creating migration",
                  "Migration created", "Failed to create migration")

list_migrations(t) ==
    ContentIntent(t, "Listing registered migrations...",
                  "No migrations found", "Failed to list migrations")

\* The request each intent hands to Transport: its method and params.
\* args = {"version": version} if version else {}.  NoVersion stands for
\* None (every string has at least one token); the empty string is false
\* as well.
NoVersion == <<>>

\* Mutant of VersionArgs: the version is sent whether it is given or not.
VersionArgs_always(version) == [version |-> version]

VersionArgs(version) ==
    IF version = NoVersion \/ version = <<"">>
    THEN <<>> ELSE [version |-> version]

ToolCall(name, arguments) == [name |-> name, arguments |-> arguments]

Intents ==
    {"initialize", "list_tools", "migration_status", "migration_up",
     "migration_down", "create_migration", "list_migrations"}

MethodOf(intent) ==
    CASE intent = "initialize" -> "initialize"
      [] intent = "list_tools" -> "tools/list"
      [] OTHER -> "tools/call"

\* a1, a2: the intent's arguments (version; or name and description).
ParamsOf(intent, a1, a2) ==
    CASE intent \in {"initialize", "list_tools"} -> None
      [] intent = "migration_status" -> ToolCall("migration_status", <<>>)
      [] intent = "migration_up" -> ToolCall("migration_up", VersionArgs(a1))
      [] intent = "migration_down" -> ToolCall("migration_down", VersionArgs(a1))
      [] intent = "create_migration" ->
            ToolCall("migration_create", [name |-> a1, description |-> a2])
      [] intent = "list_migrations" -> ToolCall("migration_list", <<>>)

\* What the intent does with the outcome of its Transport call.
Handle(intent, t) ==
    CASE intent = "initialize" -> initialize(t)
      [] intent = "list_tools" -> list_tools(t)
      [] intent = "migration_status" -> migration_status(t)
      [] intent = "migration_up" -> migration_up(t)
      [] intent = "migration_down" -> migration_down(t)
      [] intent = "create_migration" -> create_migration(t)
      [] intent = "list_migrations" -> list_migrations(t)

(***************************************************************************)
(* Interactive lines: str.strip() and the elif chain of interactive_mode.  *)
(***************************************************************************)
\* str.strip() on a token sequence: drop the empty tokens at both ends.
RECURSIVE LStrip(_)
LStrip(line) ==
    IF Len(line) > 1 /\ Head(line) = "" THEN LStrip(Tail(line)) ELSE line

RECURSIVE RStrip(_)
RStrip(line) ==
    IF Len(line) > 1 /\ line[Len(line)] = ""
    THEN RStrip(SubSeq(line, 1, Len(line) - 1)) ELSE line

strip(line) == RStrip(LStrip(line))

\* command.startswith(word + ' ')
StartsWith(command, word) == Len(command) >= 2 /\ command[1] = word

\* command.split(' ', 1)[1]: the text after the first space.
AfterFirstSpace(command) == SubSeq(command, 2, Len(command))

\* Mutant of Branch: q is not among the exit commands.
Branch_no_q(command) ==
    IF command \in {<<"quit">>, <<"exit">>} THEN "quit"
    ELSE IF command \in {<<"help">>, <<"h">>} THEN "help"
    ELSE IF command = <<"tools">> THEN "tools"
    ELSE IF command = <<"status">> THEN "status"
    ELSE IF command = <<"up">> THEN "up"
    ELSE IF StartsWith(command, "up") THEN "up version"
    ELSE IF command = <<"down">> THEN "down"
    ELSE IF StartsWith(command, "down") THEN "down version"
    ELSE IF StartsWith(command, "create") THEN "create"
    ELSE IF command = <<"list">> THEN "list"
    ELSE IF command = <<"">> THEN "blank"
    ELSE "unknown"

\* The branch of the elif chain a stripped command takes.
Branch(command) ==
    IF command \in {<<"quit">>, <<"exit">>, <<"q">>} THEN "quit"
    ELSE IF command \in {<<"help">>, <<"h">>} THEN "help"
    ELSE IF command = <<"tools">> THEN "tools"
    ELSE IF command = <<"status">> THEN "status"
    ELSE IF command = <<"up">> THEN "up"
    ELSE IF StartsWith(command, "up") THEN "up version"
    ELSE IF command = <<"down">> THEN "down"
    ELSE IF StartsWith(command, "down") THEN "down version"
    ELSE IF StartsWith(command, "create") THEN "create"
    ELSE IF command = <<"list">> THEN "list"
    ELSE IF command = <<"">> THEN "blank"
    ELSE "unknown"

\* The create branch: parts = command.split(' ', 2) has fewer than three
\* parts when the command has fewer than three tokens; name_desc =
\* parts[2].split(' ', 1) has fewer than two parts when parts[2] is a
\* single token.  Otherwise create_migration(name_desc[0], name_desc[1]).
CreateUsage(command) == Len(command) < 3 \/ Len(command) < 4

CreateName(command) == <<command[3]>>

CreateDescription(command) == SubSeq(command, 4, Len(command))

(***************************************************************************)
(* The process: the script's entry point, main(), interactive_mode() and   *)
(* the operator.  The file ends with the guard                             *)
(*     if __name__ == "__main__": main()                                   *)
(* twice: when the first main() returns (which only the interactive path   *)
(* does; every one-shot path ends in sys.exit), main() runs once more.     *)
(***************************************************************************)
VARIABLES
    command,          \* args.command ("" when absent)
    args,             \* args.args, one token each
    binary_exists,    \* os.path.exists(args.binary) when main() starts
    run,              \* which of the two calls of main() is running
    pc,               \* where main() or interactive_mode() stands
    exit_status,      \* "running", or the status the process ended with
    request_id,       \* MCPClient.request_id
    requests,         \* id and method of every request the client formed
    last_request,     \* the last request formed (None before the first)
    out,              \* the lines printed by the latest step
    reported,         \* whether a failure has been printed so far
    farewells,        \* number of farewells printed so far
    prompts,          \* number of input() calls so far
    input,            \* what the latest input() returned or raised
    returned,         \* what the latest intent method returned
    env,              \* what the latest subprocess did (NoEnv: not observed)
    transport,        \* what _run_mcp_request returned and printed for it
    alive             \* number of subprocesses started and not yet terminated

vars ==
    <<command, args, binary_exists, run, pc, exit_status, request_id,
      requests, last_request, out, reported, farewells, prompts, input,
      returned, env, transport, alive>>

Commands ==
    {"init", "tools", "status", "up", "down", "create", "list", "interactive"}

ArgTokens == {"a", "b"}

\* Sequences over S of length lo..hi.
SeqsOf(S, lo, hi) == UNION {[1..n -> S] : n \in lo..hi}

\* The tokens of the longest line after its command word, all different.
Tokens == <<"a", "b", "c", "d", "e", "f">>

\* The lines the operator types: every command word alone, up and down
\* with a version of one or two tokens, create followed by up to MaxArgs
\* tokens, and lines with spaces before, after and between the tokens.
Lines ==
    {<<w>> : w \in {"quit", "exit", "q", "help", "h", "tools", "status",
                    "up", "down", "create", "list", "", "bogus"}}
      \cup {<<"up", "a">>, <<"up", "a", "b">>, <<"down", "b">>}
      \cup {<<"create">> \o SubSeq(Tokens, 1, n) : n \in 1..MaxArgs}
      \cup {<<"", "quit", "">>, <<"", "">>, <<"create", "">>,
            <<"create", "", "a">>, <<"quit", "a">>, <<"up", "", "a">>}

\* The messages that report a failure to the operator.
FailureLines ==
    {"Failed to initialize MCP server", "Failed to list tools",
     "Failed to get migration status", "Failed to run migrations",
     "Failed to roll back migrations", "Failed to create migration",
     "Failed to list migrations", "Error: Binary not found",
     "MCP binary not found", "Error running MCP request",
     "No response from MCP server", "Failed to parse JSON response",
     "Usage: create <name> <description>", "Unknown command"}

Reports(lines) == \E i \in DOMAIN lines : lines[i] \in FailureLines

\* What input() gives: a line, or one of the two exceptions the loop catches.
NoInput == [kind |-> "none", line |-> <<>>]

TypedLine(line) == [kind |-> "line", line |-> line]

Raised(exception) == [kind |-> exception, line |-> <<>>]

NoEnv == [launch |-> "none", stdout |-> NoText, stderr |-> NoText]

NoTransportYet == [ret |-> None, err |-> <<>>]

TypeOK ==
    /\ command \in Commands \cup {""}
    /\ args \in SeqsOf(ArgTokens \cup {""}, 0, MaxArgs)
    /\ binary_exists \in BOOLEAN
    /\ run \in {1, 2}
    /\ pc \in {"main", "oneshot_init", "oneshot_intent", "awaiting_init",
               "ready", "exited", "crashed"}
    /\ exit_status \in {"running", "0", "1"}
    /\ request_id \in Nat
    /\ Len(requests) <= MaxPrompts + 1
    /\ reported \in BOOLEAN
    /\ farewells \in 0..2
    /\ prompts \in 0..(MaxPrompts + 2)
    /\ input.kind \in {"none", "line", "EOFError", "KeyboardInterrupt"}
    /\ returned \in {"none", "True", "False", "raise"}
    /\ env \in Envs \cup {NoEnv}
    /\ alive = 0

\* The command lines the script is started with: up, down and create with
\* every argument list, the other commands without arguments or with one
\* that they ignore.
Invocations ==
    [command : {"up", "down", "create"},
     args : SeqsOf(ArgTokens \cup {""}, 0, MaxArgs)]
      \cup [command : Commands \cup {""}, args : {<<>>}]
      \cup [command : {"init", "status"}, args : {<<"a">>}]

Init ==
    /\ \E inv \in Invocations : command = inv.command /\ args = inv.args
    /\ binary_exists \in BOOLEAN
    /\ run = 1
    /\ pc = "main"
    /\ exit_status = "running"
    /\ request_id = 0
    /\ requests = <<>>
    /\ last_request = None
    /\ out = <<>>
    /\ reported = FALSE
    /\ farewells = 0
    /\ prompts = 0
    /\ input = NoInput
    /\ returned = "none"
    /\ env = NoEnv
    /\ transport = NoTransportYet
    /\ alive = 0

\* print(...): the step's lines, and whether a failure is among them.
Emit(lines) ==
    /\ out' = lines
    /\ reported' = (reported \/ Reports(lines))

\* Mutant of Transport: a second id is drawn for the same request.
Transport_two_ids(intent, a1, a2) ==
    LET id == next_id(request_id)
    IN  /\ request_id' = next_id(id)
        /\ requests' = Append(requests, [id |-> id, method |-> MethodOf(intent)])
        /\ last_request' = Request(id, MethodOf(intent), ParamsOf(intent, a1, a2))

\* _run_mcp_request up to the launch: the next id is drawn and the request
\* is formed, whatever happens to the subprocess afterwards.
Transport(intent, a1, a2) ==
    LET id == next_id(request_id)
    IN  /\ request_id' = id
        /\ requests' = Append(requests, [id |-> id, method |-> MethodOf(intent)])
        /\ last_request' = Request(id, MethodOf(intent), ParamsOf(intent, a1, a2))

NoTransport == UNCHANGED <<request_id, requests, last_request>>

\* MCPClient(args.binary): request_id = 0, nothing sent.
NewClient ==
    /\ request_id' = 0
    /\ requests' = <<>>
    /\ last_request' = None

\* The step goes on to another place of the same call of main().
Goto(place) == pc' = place /\ UNCHANGED <<exit_status, run, binary_exists>>

\* sys.exit(status)
Exit(status) ==
    pc' = "exited" /\ exit_status' = status /\ UNCHANGED <<run, binary_exists>>

\* An exception nothing catches: a traceback, and Python exits with 1.
Crash ==
    pc' = "crashed" /\ exit_status' = "1" /\ UNCHANGED <<run, binary_exists>>

\* main() returns.  After the first guard the second one calls main()
\* again, which parses the same command line and tests the binary anew;
\* after the second the script ends with status 0.
Return ==
    IF run = 1
    THEN /\ run' = 2
         /\ pc' = "main"
         /\ binary_exists' \in BOOLEAN
         /\ exit_status' = exit_status
    ELSE /\ pc' = "exited"
         /\ exit_status' = "0"
         /\ UNCHANGED <<run, binary_exists>>

\* Popen and communicate() happen within the one step of an intent: the
\* subprocess is started and has terminated, so the number alive is left
\* as it was.
Frame == UNCHANGED <<command, args, env, transport, alive>>

\* Mutant of ExitCode: the status does not depend on the intent's result.
ExitCodeZero(success) == "0"

\* sys.exit(0 if success else 1)
ExitCode(success) == IF success = "True" THEN "0" ELSE "1"

\* Mutant of MainStart: the test os.path.exists(args.binary) is missing.
MainStart_no_check ==
    /\ pc = "main"
    /\ Emit(<<>>)
    /\ NewClient
    /\ Goto(IF command \in {"", "interactive"} THEN "awaiting_init"
            ELSE IF command = "init" THEN "oneshot_intent"
            ELSE "oneshot_init")
    /\ Frame
    /\ UNCHANGED <<farewells, prompts, input, returned>>

\* main() up to the point where it routes the command.
MainStart ==
    /\ pc = "main"
    /\ IF ~binary_exists
       THEN /\ Emit(<<"Error: Binary not found", "Build it with: make build">>)
            /\ Exit("1")
            /\ NoTransport
       ELSE /\ Emit(<<>>)
            /\ NewClient
            /\ Goto(IF command \in {"", "interactive"} THEN "awaiting_init"
                    ELSE IF command = "init" THEN "oneshot_intent"
                    ELSE "oneshot_init")
    /\ Frame
    /\ UNCHANGED <<farewells, prompts, input, returned>>

\* Mutant of OneShotInit: the result of initialize() is not tested.
OneShotInit_unchecked ==
    /\ pc = "oneshot_init"
    /\ \E e \in Envs :
        LET r == initialize(run_mcp_request(e))
        IN  /\ Transport("initialize", NoVersion, NoVersion)
            /\ Emit(r.out)
            /\ returned' = r.ret
            /\ IF r.ret = "raise" THEN Crash ELSE Goto("oneshot_intent")
    /\ Frame
    /\ UNCHANGED <<farewells, prompts, input>>

\* if needs_init and not client.initialize(): sys.exit(1)
OneShotInit ==
    /\ pc = "oneshot_init"
    /\ \E e \in Envs :
        LET r == initialize(run_mcp_request(e))
        IN  /\ Transport("initialize", NoVersion, NoVersion)
            /\ Emit(r.out)
            /\ returned' = r.ret
            /\ CASE r.ret = "True" -> Goto("oneshot_intent")
                 [] r.ret = "False" -> Exit("1")
                 [] r.ret = "raise" -> Crash
    /\ Frame
    /\ UNCHANGED <<farewells, prompts, input>>

\* The intent main() runs for a command, with its arguments.
OneShotCall(cmd, argv) ==
    CASE cmd = "init" -> <<"initialize", NoVersion, NoVersion>>
      [] cmd = "tools" -> <<"list_tools", NoVersion, NoVersion>>
      [] cmd = "status" -> <<"migration_status", NoVersion, NoVersion>>
      [] cmd = "up" ->
            <<"migration_up",
              IF argv # <<>> THEN <<argv[1]>> ELSE NoVersion, NoVersion>>
      [] cmd = "down" ->
            <<"migration_down",
              IF argv # <<>> THEN <<argv[1]>> ELSE NoVersion, NoVersion>>
      [] cmd = "create" ->
            <<"create_migration", <<argv[1]>>, SubSeq(argv, 2, Len(argv))>>
      [] cmd = "list" -> <<"list_migrations", NoVersion, NoVersion>>

\* if len(args.args) < 2: print usage; sys.exit(1)
OneShotUsage(cmd, argv) == cmd = "create" /\ Len(argv) < 2

\* The elif chain of main() and sys.exit(0 if success else 1).  The step
\* is the last of the process; what its subprocess did is kept in env
\* and transport.
OneShotIntent ==
    /\ pc = "oneshot_intent"
    /\ IF OneShotUsage(command, args)
       THEN /\ Emit(<<"Usage: create <name> <description>">>)
            /\ Exit("1")
            /\ NoTransport
            /\ UNCHANGED <<returned, env, transport>>
       ELSE \E e \in Envs :
            LET call == OneShotCall(command, args)
                t == run_mcp_request(e)
                r == Handle(call[1], t)
            IN  /\ Transport(call[1], call[2], call[3])
                /\ env' = e
                /\ transport' = t
                /\ Emit(r.out)
                /\ returned' = r.ret
                /\ IF r.ret = "raise" THEN Crash ELSE Exit(ExitCode(r.ret))
    /\ UNCHANGED <<command, args, alive, farewells, prompts, input>>

\* Mutant of InteractiveStart: the return after a failed initialize() is
\* missing.
InteractiveStart_no_return ==
    /\ pc = "awaiting_init"
    /\ \E e \in Envs :
        LET r == initialize(run_mcp_request(e))
        IN  /\ Transport("initialize", NoVersion, NoVersion)
            /\ Emit(<<"Interactive Mode">> \o r.out)
            /\ returned' = r.ret
            /\ IF r.ret = "raise" THEN Crash ELSE Goto("ready")
    /\ input' = NoInput
    /\ Frame
    /\ UNCHANGED <<farewells, prompts>>

\* interactive_mode() up to the loop: the banner and initialize(); when
\* initialize() returns False, interactive_mode() and main() return.
InteractiveStart ==
    /\ pc = "awaiting_init"
    /\ \E e \in Envs :
        LET r == initialize(run_mcp_request(e))
        IN  /\ Transport("initialize", NoVersion, NoVersion)
            /\ Emit(<<"Interactive Mode">> \o r.out)
            /\ returned' = r.ret
            /\ CASE r.ret = "True" -> Goto("ready")
                 [] r.ret = "False" -> Return
                 [] r.ret = "raise" -> Crash
    /\ input' = NoInput
    /\ Frame
    /\ UNCHANGED <<farewells, prompts>>

\* The loop goes on for as long as the model follows the operator.
Prompting == pc = "ready" /\ prompts < MaxPrompts

\* The farewell and break; interactive_mode() and main() return.
Farewell ==
    /\ prompts' = prompts + 1
    /\ Emit(<<"Goodbye!">>)
    /\ farewells' = farewells + 1
    /\ Return
    /\ NoTransport
    /\ Frame
    /\ UNCHANGED returned

\* quit, exit or q.
LineQuit ==
    /\ pc = "ready"
    /\ \E line \in Lines :
        Branch(strip(line)) = "quit" /\ input' = TypedLine(line)
    /\ Farewell

\* input() raises EOFError.
InputEOF ==
    /\ pc = "ready"
    /\ input' = Raised("EOFError")
    /\ Farewell

\* input() raises KeyboardInterrupt.
InputInterrupt ==
    /\ pc = "ready"
    /\ input' = Raised("KeyboardInterrupt")
    /\ Farewell

\* A line that runs no intent: what it prints, the blank line after it
\* (except for an empty line: continue), and the next prompt.
LineWithoutIntent(line, lines) ==
    /\ input' = TypedLine(line)
    /\ prompts' = prompts + 1
    /\ Emit(lines)
    /\ Goto("ready")
    /\ NoTransport
    /\ Frame
    /\ UNCHANGED <<farewells, returned>>

\* help or h.
LineHelp ==
    /\ Prompting
    /\ \E line \in Lines :
        /\ Branch(strip(line)) = "help"
        /\ LineWithoutIntent(line, <<"Available commands", "">>)

\* The intent a line runs, with its arguments.
LineCall(cmd) ==
    LET b == Branch(cmd)
    IN  CASE b = "tools" -> <<"list_tools", NoVersion, NoVersion>>
          [] b = "status" -> <<"migration_status", NoVersion, NoVersion>>
          [] b = "up" -> <<"migration_up", NoVersion, NoVersion>>
          [] b = "up version" ->
                <<"migration_up", AfterFirstSpace(cmd), NoVersion>>
          [] b = "down" -> <<"migration_down", NoVersion, NoVersion>>
          [] b = "down version" ->
                <<"migration_down", AfterFirstSpace(cmd), NoVersion>>
          [] b = "create" ->
                <<"create_migration", CreateName(cmd), CreateDescription(cmd)>>
          [] b = "list" -> <<"list_migrations", NoVersion, NoVersion>>

\* Whether the line's branch calls an intent method.
CallsIntent(cmd) ==
    \/ Branch(cmd) \in {"tools", "status", "up", "up version", "down",
                        "down version", "list"}
    \/ Branch(cmd) = "create" /\ ~CreateUsage(cmd)

\* A line that runs an intent: its return value is dropped; an exception
\* other than KeyboardInterrupt and EOFError leaves the loop and main().
LineIntent ==
    /\ Prompting
    /\ \E line \in Lines, e \in Envs :
        LET cmd == strip(line)
            call == LineCall(cmd)
            r == Handle(call[1], run_mcp_request(e))
        IN  /\ CallsIntent(cmd)
            /\ input' = TypedLine(line)
            /\ Transport(call[1], call[2], call[3])
            /\ returned' = r.ret
            /\ IF r.ret = "raise"
               THEN Emit(r.out) /\ Crash
               ELSE Emit(r.out \o <<"">>) /\ Goto("ready")
    /\ prompts' = prompts + 1
    /\ Frame
    /\ UNCHANGED farewells

\* create with too few tokens: the usage line.
LineCreateUsage ==
    /\ Prompting
    /\ \E line \in Lines :
        /\ Branch(strip(line)) = "create" /\ CreateUsage(strip(line))
        /\ LineWithoutIntent(line, <<"Usage: create <name> <description>", "">>)

\* An empty line: continue.
LineBlank ==
    /\ Prompting
    /\ \E line \in Lines :
        /\ Branch(strip(line)) = "blank"
        /\ LineWithoutIntent(line, <<>>)

\* Mutant of LineUnknown: nothing is printed for an unknown command.
LineUnknown_silent ==
    /\ Prompting
    /\ \E line \in Lines :
        /\ Branch(strip(line)) = "unknown"
        /\ LineWithoutIntent(line, <<"">>)

\* Anything else.
LineUnknown ==
    /\ Prompting
    /\ \E line \in Lines :
        /\ Branch(strip(line)) = "unknown"
        /\ LineWithoutIntent(line, <<"Unknown command", "">>)

Next ==
    \/ MainStart
    \/ OneShotInit
    \/ OneShotIntent
    \/ InteractiveStart
    \/ LineQuit
    \/ InputEOF
    \/ InputInterrupt
    \/ LineHelp
    \/ LineIntent
    \/ LineCreateUsage
    \/ LineBlank
    \/ LineUnknown

Spec == Init /\ [][Next]_vars

(***************************************************************************)
(* One client instance used directly: any sequence of intent methods,     *)
(* with any arguments, against any subprocess behaviour.                   *)
(***************************************************************************)
ClientCalls ==
    {<<i, NoVersion, NoVersion>> :
        i \in {"initialize", "list_tools", "migration_status", "migration_up",
               "migration_down", "list_migrations"}}
      \cup {<<"migration_up", <<"a">>, NoVersion>>,
            <<"migration_down", <<"a">>, NoVersion>>,
            <<"create_migration", <<"a">>, <<"b", "c">>>>}

ClientInit ==
    /\ command = ""
    /\ args = <<>>
    /\ binary_exists = TRUE
    /\ run = 1
    /\ pc = "client"
    /\ exit_status = "running"
    /\ request_id = 0
    /\ requests = <<>>
    /\ last_request = None
    /\ out = <<>>
    /\ reported = FALSE
    /\ farewells = 0
    /\ prompts = 0
    /\ input = NoInput
    /\ returned = "none"
    /\ env = NoEnv
    /\ transport = NoTransportYet
    /\ alive = 0

\* One intent method, from its first line to its return or exception.
ClientCall ==
    /\ pc = "client"
    /\ Len(requests) < MaxCalls
    /\ \E call \in ClientCalls, e \in Envs :
        LET t == run_mcp_request(e)
            r == Handle(call[1], t)
        IN  /\ Transport(call[1], call[2], call[3])
            /\ env' = e
            /\ transport' = t
            /\ returned' = r.ret
            /\ Emit(r.out)
    /\ UNCHANGED <<command, args, binary_exists, run, pc, exit_status,
                   farewells, prompts, input, alive>>

ClientNext == ClientCall

ClientSpec == ClientInit /\ [][ClientNext]_vars

(***************************************************************************)
(* Properties.                                                             *)
(***************************************************************************)
Range(seq) == {seq[i] : i \in DOMAIN seq}

Terminal == pc \in {"exited", "crashed"}

\* The intent that formed the last request.
LastIntent ==
    CASE last_request.method = "initialize" -> "initialize"
      [] last_request.method = "tools/list" -> "list_tools"
      [] last_request.params.name = "migration_status" -> "migration_status"
      [] last_request.params.name = "migration_up" -> "migration_up"
      [] last_request.params.name = "migration_down" -> "migration_down"
      [] last_request.params.name = "migration_create" -> "create_migration"
      [] last_request.params.name = "migration_list" -> "list_migrations"

\* The line each intent prints when it reports failure.
FailureLineOf(intent) ==
    CASE intent = "initialize" -> "Failed to initialize MCP server"
      [] intent = "list_tools" -> "Failed to list tools"
      [] intent = "migration_status" -> "Failed to get migration status"
      [] intent = "migration_up" -> "Failed to run migrations"
      [] intent = "migration_down" -> "Failed to roll back migrations"
      [] intent = "create_migration" -> "Failed to create migration"
      [] intent = "list_migrations" -> "Failed to list migrations"

\* C1: within one client instance the ids placed in the requests are
\* strictly increasing without repeats, whatever the calls were and
\* however they ended, and the first request carries id 1.
C1_IdsStrictlyIncreasing ==
    /\ requests # <<>> => requests[1].id = 1
    /\ \A i, j \in DOMAIN requests : i < j => requests[i].id < requests[j].id
    /\ requests # <<>> => last_request.id = requests[Len(requests)].id

\* Three calls of different intents on one client, one of them failed.
C1_Witness ==
    /\ Len(requests) = 3
    /\ Cardinality({requests[i].method : i \in DOMAIN requests}) = 3
    /\ reported
    /\ returned = "True"

\* C5 as stated: a Response is returned exactly when the subprocess was
\* launched, its output is not empty (once stripped) and parses as JSON;
\* in every other case a message is reported and None is returned.
C5_Original ==
    env # NoEnv =>
        IF /\ env.launch = "ok"
           /\ Strip(env.stdout) # ""
           /\ Strip(env.stdout) \in DOMAIN ParseTable
        THEN transport.ret # None
        ELSE transport.ret = None /\ transport.err # <<>>

\* C5, amended: a Response is returned exactly when the subprocess was
\* launched and its stripped output parses as a JSON value other than
\* null.  A missing binary, any other launch exception, an output that is
\* empty once stripped and an unparseable output each print their message
\* and return None; the output null parses to None, which is returned
\* with no message of Transport.
C5_Transport ==
    env # NoEnv =>
        LET body == Strip(env.stdout)
            launched == env.launch = "ok"
            parses == body \in DOMAIN ParseTable
            msgs == Range(transport.err)
        IN  /\ transport.ret # None <=> (launched /\ parses /\ body # "null")
            /\ env.launch = "FileNotFoundError" =>
                    transport.err = <<"MCP binary not found",
                                      "Build the binary with: make build">>
            /\ env.launch = "OSError" =>
                    transport.err = <<"Error running MCP request">>
            /\ launched /\ body = "" =>
                    /\ "No response from MCP server" \in msgs
                    /\ "Failed to parse JSON response" \notin msgs
            /\ launched /\ body # "" /\ ~parses =>
                    /\ "Failed to parse JSON response" \in msgs
                    /\ "Raw response" \in msgs
                    /\ "No response from MCP server" \notin msgs
            /\ launched /\ parses =>
                    msgs \subseteq {"MCP Server Error"}
            /\ launched => ("MCP Server Error" \in msgs <=> Strip(env.stderr) # "")

\* The subprocess printed null: None comes back and nothing is printed.
C5_Witness ==
    /\ env.launch = "ok"
    /\ Strip(env.stdout) = "null"
    /\ transport = [ret |-> None, err |-> <<>>]
    /\ returned = "False"

\* Whether a response is a mapping with a `result` key.
HasResultKey(response) ==
    response.t = "dict" /\ "result" \in DOMAIN response.d

\* C6: for every intent and every parsed response without a `result` key
\* (one with only an `error` key included) the intent prints its failure
\* line and returns failure, as for no usable response; it never raises.
C6_NoResultIsFailure ==
    (/\ env # NoEnv
     /\ env.launch = "ok"
     /\ Strip(env.stdout) \in DOMAIN ParseTable
     /\ ~HasResultKey(transport.ret))
        => /\ returned = "False"
           /\ out[Len(out)] = FailureLineOf(LastIntent)

\* A one-shot command other than init.
NeedsInit == command \notin {"", "interactive", "init"}

InitRequest == [id |-> 1, method |-> "initialize"]

\* C2: a one-shot command other than init sends initialize before the
\* intent's own request; when that initialize does not succeed the process
\* ends with status 1 and no further Transport call is made.
C2_ImplicitInitialize ==
    /\ [](NeedsInit /\ requests # <<>> => requests[1] = InitRequest)
    /\ [](NeedsInit /\ pc = "oneshot_intent" =>
            requests = <<InitRequest>> /\ returned = "True")
    /\ [][NeedsInit /\ pc = "main" /\ binary_exists => pc' = "oneshot_init"]_vars
    /\ [][pc = "oneshot_init" =>
            /\ requests' = <<InitRequest>>
            /\ returned' = "True" => pc' = "oneshot_intent"
            /\ returned' # "True" =>
                    /\ Terminal' /\ exit_status' = "1"
                    /\ "Connected" \notin Range(out')]_vars
    /\ [][Terminal => requests' = requests /\ pc' = pc]_vars

\* status, whose initialize failed: one request, status 1.
C2_Witness ==
    /\ command = "status"
    /\ pc = "exited"
    /\ exit_status = "1"
    /\ returned = "False"
    /\ requests = <<InitRequest>>
    /\ "Failed to initialize MCP server" \in Range(out)

\* C3 as stated: once the one-shot intent is due, exactly one further
\* Transport call is made, for every command and every argument list, and
\* the status is 0 if the intent returned success and 1 if failure.
C3_Original ==
    [][pc = "oneshot_intent" =>
        /\ Len(requests') = Len(requests) + 1
        /\ Terminal'
        /\ exit_status' = ExitCode(returned')]_vars

\* C3, amended: create with fewer than two arguments prints the usage line,
\* makes no Transport call and ends with status 1; every other command and
\* argument list makes exactly one further Transport call, that of its
\* intent, and ends with status 0 if the intent returned success and 1 if
\* it returned failure or raised.
C3_OneIntent ==
    /\ [][pc = "oneshot_intent" =>
            IF command = "create" /\ Len(args) < 2
            THEN /\ requests' = requests
                 /\ out' = <<"Usage: create <name> <description>">>
                 /\ pc' = "exited" /\ exit_status' = "1"
            ELSE /\ Len(requests') = Len(requests) + 1
                 /\ last_request'.id = request_id'
                 /\ LastIntent' = OneShotCall(command, args)[1]
                 /\ returned' = "True" => pc' = "exited" /\ exit_status' = "0"
                 /\ returned' = "False" => pc' = "exited" /\ exit_status' = "1"
                 /\ returned' = "raise" => pc' = "crashed" /\ exit_status' = "1"]_vars
    /\ [][Terminal => requests' = requests /\ pc' = pc]_vars
    /\ [](NeedsInit => Len(requests) <= 2)
    /\ [](command = "init" => Len(requests) <= 1)

\* up with a version after a successful initialize: two requests, status 0.
C3_Witness ==
    /\ command = "up" /\ args = <<"a">>
    /\ pc = "exited"
    /\ exit_status = "0"
    /\ returned = "True"
    /\ Len(requests) = 2
    /\ last_request.params.name = "migration_up"

\* C4: whenever the process has ended, its status is 1 if a failure was
\* reported to the operator or the binary is missing, and 0 only when the
\* run succeeded.
C4_ExitStatus ==
    Terminal =>
        /\ (reported \/ ~binary_exists) => exit_status = "1"
        /\ exit_status = "0" => ~reported /\ returned # "False"

\* An input that ends the session: an exit command (input().strip() is
\* quit, exit or q), end of input, or an interrupt.
ExitInput(i) ==
    \/ i.kind \in {"EOFError", "KeyboardInterrupt"}
    \/ i.kind = "line" /\ strip(i.line) \in {<<"quit">>, <<"exit">>, <<"q">>}

\* A step of the interactive loop: one input() call.
Prompted == pc = "ready" /\ prompts' = prompts + 1

\* interactive_mode() has returned: the session is terminated.
SessionTerminated == (pc = "main" /\ run = 2) \/ pc = "exited"

\* C7: in ready, after any earlier commands, quit, exit, q, end of input
\* and an interrupt each terminate the session, print the farewell exactly
\* once, call Transport no more and leave normally.
C7_ExitInputs ==
    /\ [][Prompted /\ ExitInput(input') =>
            /\ SessionTerminated'
            /\ out' = <<"Goodbye!">>
            /\ farewells' = farewells + 1
            /\ requests' = requests /\ request_id' = request_id
            /\ pc' # "crashed" /\ exit_status' # "1"]_vars
    /\ [][farewells' # farewells => Prompted /\ ExitInput(input')]_vars
    /\ [][Terminal => requests' = requests /\ pc' = pc]_vars

\* q typed after a command that failed.
C7_Witness ==
    /\ SessionTerminated
    /\ input = TypedLine(<<"q">>)
    /\ farewells = 1
    /\ Len(requests) = 2
    /\ returned = "False"
    /\ out = <<"Goodbye!">>

\* C8: no command ends the session: whatever the subprocess prints, the
\* loop stays in ready; ready is left only by an exit command, end of
\* input or an interrupt.
C8_LoopContinues ==
    [][Prompted /\ ~ExitInput(input') => pc' = "ready"]_vars

\* C9: when initialize fails at the start of an interactive session, the
\* loop never prompts, no further Transport call is made and
\* interactive_mode() returns at once.
C9_InitGate ==
    /\ [][pc = "awaiting_init" =>
            /\ requests' = <<InitRequest>>
            /\ prompts' = prompts
            /\ returned' = "False" =>
                    /\ SessionTerminated'
                    /\ "Failed to initialize MCP server" \in Range(out')
            /\ pc' = "ready" => returned' = "True"]_vars
    /\ [][Prompted => returned # "none" /\ requests[1] = InitRequest]_vars
    /\ [](SessionTerminated /\ requests = <<InitRequest>> /\ returned = "False"
            => input = NoInput)

\* The first session ended at its failed initialize, without a prompt.
C9_Witness ==
    /\ command = "interactive"
    /\ run = 2 /\ pc = "main"
    /\ requests = <<InitRequest>>
    /\ returned = "False"
    /\ prompts = 0
    /\ input = NoInput

\* create followed by fewer than two tokens.
CreateWithFewTokens(line) ==
    LET c == strip(line) IN c[1] = "create" /\ Len(c) - 1 < 2

\* C10: in interactive mode create with zero tokens or one token after the
\* command word prints the usage line and does not call Transport.
C10_CreateUsage ==
    [][Prompted /\ input'.kind = "line" /\ CreateWithFewTokens(input'.line) =>
        /\ requests' = requests
        /\ "Usage: create <name> <description>" \in Range(out')]_vars

\* create followed by at least two tokens, single spaces between them.
CreateWithTokens(line) ==
    LET c == strip(line)
    IN  /\ c[1] = "create"
        /\ Len(c) - 1 >= 2
        /\ \A i \in DOMAIN c : c[i] # ""

\* C11: in interactive mode a line create <name> <description...> with at
\* least two tokens after the command word makes exactly one Transport
\* call, tools/call with params {name: "migration_create", arguments:
\* {name, description}}, where name is the first token after create and
\* description is the rest of the line.
C11_CreateCall ==
    [][Prompted /\ input'.kind = "line" /\ CreateWithTokens(input'.line) =>
        LET c == strip(input'.line)
        IN  /\ Len(requests') = Len(requests) + 1
            /\ last_request'.method = "tools/call"
            /\ last_request'.params =
                  ToolCall("migration_create",
                           [name |-> <<c[2]>>,
                            description |-> SubSeq(c, 3, Len(c))])]_vars

\* The tool an interactive or one-shot command word stands for.
ToolOf(word) == IF word = "up" THEN "migration_up" ELSE "migration_down"

\* Whether a response carries a result whose content's first block holds
\* a text string, and that text.
HasContentText(response) ==
    /\ HasResultKey(response)
    /\ IsDict(response.d["result"])
    /\ "content" \in DOMAIN response.d["result"].d
    /\ LET content == response.d["result"].d["content"]
       IN  /\ content.t = "list"
           /\ content.l # <<>>
           /\ IsDict(content.l[1])
           /\ "text" \in DOMAIN content.l[1].d
           /\ content.l[1].d["text"].t = "str"

ContentTextOf(response) == response.d["result"].d["content"].l[1].d["text"].s

\* The last step of a one-shot up or down: when the response carries a
\* content text, it is printed and the process ends with status 0.
OneShotTextPrinted ==
    HasContentText(transport'.ret) =>
        /\ out'[Len(out')] = ContentTextOf(transport'.ret)
        /\ pc' = "exited"
        /\ exit_status' = "0"

\* The request an interactive up or down line must form: the empty
\* mapping for the word alone, else the text after the first space.
LineVersionRequest ==
    (/\ Prompted
     /\ input'.kind = "line"
     /\ strip(input'.line)[1] \in {"up", "down"}
     /\ strip(input'.line)[1] # "")
        => LET c == strip(input'.line)
           IN  /\ Len(requests') = Len(requests) + 1
               /\ last_request'.method = "tools/call"
               /\ last_request'.params =
                     ToolCall(ToolOf(c[1]),
                              IF Len(c) = 1 THEN <<>>
                              ELSE [version |-> SubSeq(c, 2, Len(c))])

\* C12 as stated: one-shot up and down send {version: v} whenever a
\* version argument is given, the empty string included.
C12_Original ==
    /\ [][pc = "oneshot_intent" /\ command \in {"up", "down"} =>
            /\ last_request'.method = "tools/call"
            /\ last_request'.params =
                  ToolCall(ToolOf(command),
                           IF args # <<>> THEN [version |-> <<args[1]>>]
                           ELSE <<>>)
            /\ OneShotTextPrinted]_vars
    /\ [][LineVersionRequest]_vars

\* C12, amended: for apply and rollback, a one-shot command with a
\* non-empty first argument v sends tools/call with params {name:
\* "migration_up" (or "migration_down"), arguments: {version: v}}; with no
\* argument, or with the empty string as first argument, arguments is the
\* empty mapping.  An interactive line up or down alone sends the empty
\* mapping, and up <text> or down <text> sends {version: <text>}, the text
\* after the first space of the stripped line.  In one-shot mode a response
\* that carries a content text has it printed and the process ends with 0.
C12_VersionArguments ==
    /\ [][pc = "oneshot_intent" /\ command \in {"up", "down"} =>
            /\ last_request'.method = "tools/call"
            /\ last_request'.params =
                  ToolCall(ToolOf(command),
                           IF args # <<>> /\ args[1] # ""
                           THEN [version |-> <<args[1]>>]
                           ELSE <<>>)
            /\ OneShotTextPrinted]_vars
    /\ [][LineVersionRequest]_vars

\* down with the empty string as version: the request has no version and
\* the text of the response is printed.
C12_Witness ==
    /\ command = "down" /\ args = <<"">>
    /\ pc = "exited"
    /\ exit_status = "0"
    /\ last_request.params = ToolCall("migration_down", <<>>)
    /\ HasContentText(transport.ret)
    /\ out[Len(out)] = "ok"

\* A one-shot invocation: a command other than interactive is given.
OneShot == command \notin {"", "interactive"}

\* C13: when the binary is absent at the start of a one-shot invocation,
\* the process prints the binary-not-found message and ends with status 1
\* without attempting initialize: no Transport call is made and no request
\* id is consumed.
C13_BinaryAbsent ==
    /\ [][OneShot /\ pc = "main" /\ ~binary_exists =>
            /\ pc' = "exited"
            /\ exit_status' = "1"
            /\ out'[1] = "Error: Binary not found"
            /\ requests' = <<>>
            /\ request_id' = 0
            /\ last_request' = None]_vars
    /\ [](OneShot /\ ~binary_exists =>
            /\ pc \in {"main", "exited"}
            /\ requests = <<>>
            /\ request_id = 0
            /\ returned = "none")
    /\ [][Terminal => requests' = requests /\ request_id' = request_id]_vars

\* status with the binary absent: status 1, the message, nothing sent.
C13_Witness ==
    /\ command = "status"
    /\ ~binary_exists
    /\ pc = "exited"
    /\ exit_status = "1"
    /\ out = <<"Error: Binary not found", "Build it with: make build">>
    /\ requests = <<>>
    /\ request_id = 0

\* The intents that call a tool.
ToolCallIntents ==
    {"migration_status", "migration_up", "migration_down",
     "create_migration", "list_migrations"}

\* The string each tool-call intent shows for a block without text.
DefaultTextOf(intent) ==
    CASE intent = "migration_status" -> "No status available"
      [] intent = "migration_up" -> "Migration completed"
      [] intent = "migration_down" -> "Migration rolled back"
      [] intent = "create_migration" -> "Migration created"
      [] intent = "list_migrations" -> "No migrations found"

\* The response's result is a mapping.
HasResultMapping(response) ==
    HasResultKey(response) /\ IsDict(response.d["result"])

\* response['result'].get('content', [])
ContentOf(response) == DictGet(response.d["result"], "content", JList(<<>>))

\* The result's content is a non-empty sequence whose first block is a
\* mapping.
HasFirstBlock(response) ==
    /\ HasResultMapping(response)
    /\ ContentOf(response).t = "list"
    /\ ContentOf(response).l # <<>>
    /\ IsDict(ContentOf(response).l[1])

FirstBlock(response) == ContentOf(response).l[1].d

\* C14: for every intent and every response that has a result key,
\* whatever the shape of result and of its content, tools and serverInfo
\* entries, the intent ends by reporting success or failure and never ends
\* in an exception.
C14_NeverRaises ==
    (/\ env # NoEnv
     /\ env.launch = "ok"
     /\ HasResultKey(transport.ret))
        => /\ returned \in {"True", "False"}
           /\ returned = "False" => out[Len(out)] = FailureLineOf(LastIntent)

\* C15 as stated: a tool-call intent that ends without an exception
\* reports success exactly when the response contains
\* result.content[0].text, and failure when the first block has no text.
C15_Original ==
    (/\ env # NoEnv
     /\ LastIntent \in ToolCallIntents
     /\ returned # "raise")
        => (returned = "True" <=>
                /\ HasFirstBlock(transport.ret)
                /\ "text" \in DOMAIN FirstBlock(transport.ret))

\* C15, amended: a tool-call intent reports success exactly when result is
\* a mapping whose content is a non-empty sequence whose first block is a
\* mapping with a text string or with no text entry; it prints the text,
\* or its default display string when the block has no text.  When result
\* is a mapping whose content is missing, null or empty, the intent prints
\* its failure line and reports failure.
C15_ContentText ==
    (env # NoEnv /\ LastIntent \in ToolCallIntents) =>
        LET response == transport.ret
        IN  /\ returned = "True" <=>
                /\ HasFirstBlock(response)
                /\ "text" \in DOMAIN FirstBlock(response) =>
                        FirstBlock(response)["text"].t = "str"
            /\ returned = "True" =>
                out[Len(out)] =
                    IF "text" \in DOMAIN FirstBlock(response)
                    THEN FirstBlock(response)["text"].s
                    ELSE DefaultTextOf(LastIntent)
            /\ (HasResultMapping(response) /\ ~Truthy(ContentOf(response))) =>
                /\ returned = "False"
                /\ out[Len(out)] = FailureLineOf(LastIntent)

\* list_migrations got a first block without text: the default string is
\* printed and success is reported.
C15_Witness ==
    /\ env # NoEnv
    /\ LastIntent = "list_migrations"
    /\ HasFirstBlock(transport.ret)
    /\ "text" \notin DOMAIN FirstBlock(transport.ret)
    /\ returned = "True"
    /\ out[Len(out)] = "No migrations found"

\* The three kinds of line that run nothing: help or h, a blank line, and
\* text that is no command (an unknown word, or a command word that takes
\* no argument followed by more text).
HelpLine(line) == strip(line) \in {<<"help">>, <<"h">>}

BlankLine(line) == strip(line) = <<"">>

UnrecognizedLine(line) ==
    LET c == strip(line)
    IN  \/ c[1] \notin {"quit", "exit", "q", "help", "h", "tools", "status",
                        "up", "down", "create", "list", ""}
        \/ /\ Len(c) > 1
           /\ c[1] \in {"quit", "exit", "q", "help", "h", "tools", "status",
                        "list"}

\* C16: in ready, help or h, a blank line and unrecognized text each leave
\* the session as it is: no Transport call, the request id counter keeps
\* its value, the session stays in ready; unrecognized text is reported as
\* unknown.
C16_NoEffectLines ==
    [][(/\ Prompted
        /\ input'.kind = "line"
        /\ \/ HelpLine(input'.line)
           \/ BlankLine(input'.line)
           \/ UnrecognizedLine(input'.line))
        => /\ requests' = requests
           /\ request_id' = request_id
           /\ last_request' = last_request
           /\ pc' = "ready"
           /\ exit_status' = "running"
           /\ farewells' = farewells
           /\ UnrecognizedLine(input'.line) <=>
                    "Unknown command" \in Range(out')
           /\ HelpLine(input'.line) <=> "Available commands" \in Range(out')
           /\ BlankLine(input'.line) => out' = <<>>]_vars

\* quit followed by more text, typed after a command: reported as unknown,
\* two requests so far, still in ready.
C16_Witness ==
    /\ pc = "ready"
    /\ input = TypedLine(<<"quit", "a">>)
    /\ "Unknown command" \in Range(out)
    /\ prompts = 2
    /\ request_id = 2
    /\ Len(requests) = 2

(***************************************************************************)
(* One client instance with _run_mcp_request followed step by step: the    *)
(* request is formed, Popen starts the subprocess, communicate() writes    *)
(* the request and closes the input, then reads both streams to their end  *)
(* and waits for the subprocess, and the intent handles what came back.    *)
(* A subprocess that never terminates leaves the call at its drain step    *)
(* for ever (no timeout).                                                  *)
(***************************************************************************)
\* What the subprocesses of this specification print.
DrainEnvs ==
    {e \in Envs :
        /\ e.launch = "ok"
        /\ e.stdout \in {NoText, Text("null", TRUE), Text("5", TRUE),
                         Text("Usage: mongo-essential [command]", TRUE),
                         Text("{\"result\": {}}", TRUE),
                         Text("{\"result\": {\"content\": [{\"type\": \"text\", \"text\": \"ok\"}]}}", TRUE)}}

TransportInit ==
    /\ command = ""
    /\ args = <<>>
    /\ binary_exists = TRUE
    /\ run = 1
    /\ pc = "client"
    /\ exit_status = "running"
    /\ request_id = 0
    /\ requests = <<>>
    /\ last_request = None
    /\ out = <<>>
    /\ reported = FALSE
    /\ farewells = 0
    /\ prompts = 0
    /\ input = NoInput
    /\ returned = "none"
    /\ env = NoEnv
    /\ transport = NoTransportYet
    /\ alive = 0

TransportFrame ==
    UNCHANGED <<command, args, binary_exists, run, exit_status, farewells,
                prompts, input>>

\* An intent method is called: it draws the next id and forms the request.
RunForm ==
    /\ pc = "client"
    /\ Len(requests) < MaxCalls
    /\ \E call \in ClientCalls : Transport(call[1], call[2], call[3])
    /\ pc' = "formed"
    /\ env' = NoEnv
    /\ Emit(<<>>)
    /\ TransportFrame
    /\ UNCHANGED <<returned, transport, alive>>

\* subprocess.Popen(...): the subprocess is started, or Popen raises.
RunLaunch ==
    /\ pc = "formed"
    /\ \E l \in Launches :
        /\ env' = [env EXCEPT !.launch = l]
        /\ IF l = "ok"
           THEN alive' = alive + 1 /\ pc' = "launched"
           ELSE alive' = alive /\ pc' = "failed"
    /\ TransportFrame
    /\ UNCHANGED <<request_id, requests, last_request, out, reported,
                   returned, transport>>

\* communicate(), first part: the request and a newline are written and
\* the input stream is closed.
RunWrite ==
    /\ pc = "launched"
    /\ pc' = "written"
    /\ TransportFrame
    /\ UNCHANGED <<request_id, requests, last_request, out, reported,
                   returned, transport, env, alive>>

\* Mutant of RunDrain: the output is read but the end of the subprocess is
\* not waited for.
RunDrain_no_wait ==
    /\ pc = "written"
    /\ \E e \in DrainEnvs : env' = e
    /\ alive' = alive
    /\ pc' = "drained"
    /\ TransportFrame
    /\ UNCHANGED <<request_id, requests, last_request, out, reported,
                   returned, transport>>

\* communicate(), second part: both streams are read to their end and the
\* subprocess is waited for.
RunDrain ==
    /\ pc = "written"
    /\ \E e \in DrainEnvs : env' = e
    /\ alive' = alive - 1
    /\ pc' = "drained"
    /\ TransportFrame
    /\ UNCHANGED <<request_id, requests, last_request, out, reported,
                   returned, transport>>

\* The rest of _run_mcp_request and of the intent method, up to its return
\* or exception.
RunReturn ==
    /\ pc \in {"drained", "failed"}
    /\ LET t == run_mcp_request(env)
           r == Handle(LastIntent, t)
       IN  /\ transport' = t
           /\ returned' = r.ret
           /\ Emit(r.out)
    /\ pc' = "client"
    /\ TransportFrame
    /\ UNCHANGED <<request_id, requests, last_request, env, alive>>

TransportNext ==
    \/ RunForm
    \/ RunLaunch
    \/ RunWrite
    \/ RunDrain
    \/ RunReturn

TransportSpec == TransportInit /\ [][TransportNext]_vars

C19_CounterIsCallCount ==
    /\ [](request_id = Len(requests))
    /\ [](pc = "formed" => last_request.id = request_id /\ env.launch = "none")
    /\ [][pc = "client" /\ pc' # "client" =>
            /\ request_id' = request_id + 1
            /\ Len(requests') = Len(requests) + 1
            /\ alive' = alive]_vars
    /\ [][pc # "client" =>
            request_id' = request_id /\ requests' = requests]_vars

\* Three calls so far; the launch of the third failed and the intent
\* reported failure.
C19_Witness ==
    /\ pc = "client"
    /\ request_id = 3
    /\ Len(requests) = 3
    /\ env.launch = "FileNotFoundError"
    /\ returned = "False"
    /\ alive = 0

(***************************************************************************)
(* The process under fair scheduling: the operator's input is finite (at   *)
(* most MaxPrompts lines, then an exit command, end of input or an         *)
(* interrupt) and every subprocess terminates, so every step that can be   *)
(* taken is taken in the end.                                              *)
(***************************************************************************)
LiveSpec == Init /\ [][Next]_vars /\ WF_vars(Next)

\* C18: an interactive session whose operator's input is finite and whose
\* subprocesses all terminate reaches terminated in the end: the loop
\* handles each line with at most one Transport call and returns to the
\* prompt.
C18_SessionTerminates ==
    /\ (pc \in {"awaiting_init", "ready"}) ~> SessionTerminated
    /\ [][Prompted => Len(requests') <= Len(requests) + 1]_vars

====
